---- MODULE Spec2Model ----
(***************************************************************************)
(* Model of cf_ai_llama33_edgechat: the ChatSession Durable Object (the    *)
(* per-conversation memory store), the /api/chat handler of the Worker     *)
(* (the synchronous turn) and the ChatWorkflow (the background pipeline).  *)
(*                                                                         *)
(* The SQL cursor helpers the source calls (one(), rows()) are modelled as *)
(* the source uses them: one() yields the single row or null, rows() the   *)
(* result rows in query order.  The ts column is written by every insert   *)
(* and read by no decision of the program; it is left out of the rows.     *)
(***************************************************************************)
EXTENDS Integers, Sequences, FiniteSets, TLC

\* ------------------------------------------------------------------ bounds
\* Direct calls of append are made while the conversation holds fewer rows.
MaxMsgs == 3
\* Largest limit a direct getContext call is made with.
MaxLimit == 3
\* Retries the step sequencer grants one step after its first attempt.
MaxRetries == 1
\* Restarts of the host one workflow instance lives through.
MaxRestarts == 1
\* Another invocation appends to the conversation while it holds no more rows.
MaxOthers == 18

\* ------------------------------------------------------------ input domains
\* "default" is the conversation of a voice request that names none.
Rooms == {"A", "B", "default"}

\* MemoryMessage.role
Roles == {"system", "user", "assistant", "tool"}

\* Texts that occur as message content.  "essay" stands for a user input of
\* 4999 characters; the others are themselves.
Texts == {"", "k", "hello", "essay"}

\* The conversation, the roles and the texts the direct calls of the store are
\* made with.
CallRooms == {"A"}
CallRoles == {"user", "assistant"}
CallTexts == {"hello", "k"}

\* The JSON bodies requests carry ("" is a missing field).
Body(roomId, text, model) == [roomId |-> roomId, text |-> text, model |-> model]

Bodies ==
  { Body("A", "essay", "modelX"), Body("B", "hello", ""),
    Body("", "hello", ""), Body("A", "", "") }

\* The multipart forms /api/voice requests carry: whether the content type is
\* multipart/form-data, whether field "file" is a File, and fields roomId and
\* model ("" is a missing field).
Form(multipart, file, roomId, model) ==
  [multipart |-> multipart, file |-> file, roomId |-> roomId, model |-> model]

Forms ==
  { Form(TRUE, TRUE, "A", ""), Form(TRUE, TRUE, "", "modelX"),
    Form(FALSE, TRUE, "A", ""), Form(TRUE, FALSE, "A", "") }

\* The invocations of the fetch handler: two, so that one runs while the
\* other, or the other's workflow, does.
Turns == {"t1", "t2"}

\* Texts a summary is set to.
SummaryTexts == {"", "s1", "s2"}

\* SQL length(content) on the texts of the model.
length(c) ==
  CASE c = ""      -> 0
    [] c = "k"     -> 1
    [] c = "s1"    -> 2
    [] c = "s2"    -> 2
    [] c = "hello" -> 5
    [] c = "essay" -> 4999

VARIABLES
  initialized,  \* ChatSession.initialized, per Durable Object instance
  schema,       \* whether the tables of a conversation's SQLite store exist
  messages,     \* table messages: a set of rows [id, role, content]
  sqlite_seq,   \* AUTOINCREMENT's record of the largest id ever assigned
  meta,         \* table meta: a set of rows [k, v]
  ret,          \* the last direct call of a store method and what it returned
  turn,         \* the /api/chat invocations: position and local variables
  wf            \* the ChatWorkflow instances, one per invocation

storeVars == <<initialized, schema, messages, sqlite_seq, meta>>
vars == <<initialized, schema, messages, sqlite_seq, meta, ret, turn, wf>>

\* ------------------------------------------------------------ pure helpers
Min(a, b) == IF a <= b THEN a ELSE b

Reverse(s) == [i \in 1..Len(s) |-> s[Len(s) + 1 - i]]

Ids(rows) == {row.id : row \in rows}

\* ORDER BY id DESC over a set of rows (id is the primary key): the row at
\* position i is the one with i - 1 rows of a larger id.
OrderByIdDesc(rows) ==
  [i \in 1..Cardinality(rows) |->
     CHOOSE x \in rows : Cardinality({y \in rows : y.id > x.id}) = i - 1]

\* LIMIT ? on a result sequence (limit >= 0).
Limit(s, limit) == SubSeq(s, 1, Min(limit, Len(s)))

RECURSIVE SumLength(_, _)
\* SUM(length(content)) over the first n rows of a scan of the table.
SumLength(scan, n) ==
  IF n = 0 THEN 0 ELSE length(scan[n].content) + SumLength(scan, n - 1)

\* ------------------------------------------------------------- ChatSession
\* ensureSchema on one table: nothing once initialized; otherwise CREATE TABLE
\* IF NOT EXISTS, which keeps the rows of a table that exists.
ensureSchemaRows(r, rows) ==
  IF initialized[r] THEN rows
  ELSE IF schema[r] THEN rows ELSE {}

\* A wrong id: the last id assigned is handed out again.
NextRowId_Reuse(r) == IF sqlite_seq[r] = 0 THEN 1 ELSE sqlite_seq[r]

\* The id AUTOINCREMENT gives the next inserted row.
NextRowId(r) == sqlite_seq[r] + 1

\* A wrong upsert: ON CONFLICT(k) DO NOTHING, the first value stays.
Upsert_KeepFirst(rows, k, v) ==
  IF \E row \in rows : row.k = k THEN rows ELSE rows \cup {[k |-> k, v |-> v]}

\* INSERT INTO meta ... ON CONFLICT(k) DO UPDATE SET v = excluded.v
Upsert(rows, k, v) == {row \in rows : row.k # k} \cup {[k |-> k, v |-> v]}

\* A wrong addressing: idFromName is given one name for every roomId, so all
\* conversations are written to the object of conversation "A".
append_OneObject(r, role, content) ==
  /\ initialized' = [initialized EXCEPT !["A"] = TRUE]
  /\ schema' = [schema EXCEPT !["A"] = TRUE]
  /\ messages' = [messages EXCEPT !["A"] =
       ensureSchemaRows("A", @) \cup
         {[id |-> NextRowId("A"), role |-> role, content |-> content]}]
  /\ sqlite_seq' = [sqlite_seq EXCEPT !["A"] = NextRowId("A")]
  /\ meta' = [meta EXCEPT !["A"] = ensureSchemaRows("A", @)]

\* ChatSession.append: the effect on the store of conversation r.
append(r, role, content) ==
  /\ initialized' = [initialized EXCEPT ![r] = TRUE]
  /\ schema' = [schema EXCEPT ![r] = TRUE]
  /\ messages' = [messages EXCEPT ![r] =
       ensureSchemaRows(r, @) \cup
         {[id |-> NextRowId(r), role |-> role, content |-> content]}]
  /\ sqlite_seq' = [sqlite_seq EXCEPT ![r] = NextRowId(r)]
  /\ meta' = [meta EXCEPT ![r] = ensureSchemaRows(r, @)]

\* A wrong scan: the rows are returned as the query yields them, newest first.
recent_NoReverse(r, limit) == Limit(OrderByIdDesc(messages[r]), limit)

\* A wrong scan: ascending order, so the limit keeps the oldest rows.
recent_Oldest(r, limit) == Limit(Reverse(OrderByIdDesc(messages[r])), limit)

\* SELECT id, role, content, ts FROM messages ORDER BY id DESC LIMIT ?, reversed.
recent(r, limit) == Reverse(Limit(OrderByIdDesc(messages[r]), limit))

\* SELECT v FROM meta WHERE k = 'summary', then (one()?.v) ?? "".
summaryIn(rows) ==
  LET found == {row \in rows : row.k = "summary"}
  IN  IF found = {} THEN "" ELSE (CHOOSE row \in found : TRUE).v

\* The summary getContext reads from the store of conversation r.
summaryOf(r) == summaryIn(meta[r])

\* ChatSession.getContext: the value returned.
getContext(r, limit) == [summary |-> summaryOf(r), messages |-> recent(r, limit)]

\* A wrong size: the characters of the three most recent messages only.
approxChars_Recent(r) ==
  IF messages[r] = {} THEN 0
  ELSE SumLength(OrderByIdDesc(messages[r]), Min(3, Cardinality(messages[r])))

\* ChatSession.approxChars: the value returned (SUM over no rows is null, ?? 0).
approxChars(r) ==
  IF messages[r] = {} THEN 0
  ELSE SumLength(OrderByIdDesc(messages[r]), Cardinality(messages[r]))

\* A store method that only reads: ensureSchema is its whole effect.
readOnly(r) ==
  /\ initialized' = [initialized EXCEPT ![r] = TRUE]
  /\ schema' = [schema EXCEPT ![r] = TRUE]
  /\ messages' = [messages EXCEPT ![r] = ensureSchemaRows(r, @)]
  /\ meta' = [meta EXCEPT ![r] = ensureSchemaRows(r, @)]
  /\ UNCHANGED sqlite_seq

\* A wrong setSummary: the messages the summary stands for are deleted.
setSummary_Compact(r, summary) ==
  /\ initialized' = [initialized EXCEPT ![r] = TRUE]
  /\ schema' = [schema EXCEPT ![r] = TRUE]
  /\ messages' = [messages EXCEPT ![r] = {}]
  /\ meta' = [meta EXCEPT ![r] = Upsert(ensureSchemaRows(r, @), "summary", summary)]
  /\ UNCHANGED sqlite_seq

\* ChatSession.setSummary: the effect on the store of conversation r.
setSummary(r, summary) ==
  /\ initialized' = [initialized EXCEPT ![r] = TRUE]
  /\ schema' = [schema EXCEPT ![r] = TRUE]
  /\ messages' = [messages EXCEPT ![r] = ensureSchemaRows(r, @)]
  /\ meta' = [meta EXCEPT ![r] = Upsert(ensureSchemaRows(r, @), "summary", summary)]
  /\ UNCHANGED sqlite_seq

\* ------------------------------------------------- direct calls of the store
NoRet == [op |-> "none"]

CallAppend(r, role, content) ==
  /\ Cardinality(messages[r]) < MaxMsgs
  /\ append(r, role, content)
  /\ ret' = [op |-> "append", room |-> r, role |-> role, content |-> content,
             id |-> NextRowId(r)]
  /\ UNCHANGED <<turn, wf>>

CallGetContext(r, limit) ==
  /\ readOnly(r)
  /\ ret' = [op |-> "getContext", room |-> r, limit |-> limit,
             value |-> getContext(r, limit)]
  /\ UNCHANGED <<turn, wf>>

CallSetSummary(r, summary) ==
  /\ setSummary(r, summary)
  /\ ret' = [op |-> "setSummary", room |-> r, text |-> summary]
  /\ UNCHANGED <<turn, wf>>

CallApproxChars(r) ==
  /\ readOnly(r)
  /\ ret' = [op |-> "approxChars", room |-> r, n |-> approxChars(r)]
  /\ UNCHANGED <<turn, wf>>

\* The Durable Object instance is evicted from memory; its storage stays.
Evict(r) ==
  /\ initialized[r]
  /\ initialized' = [initialized EXCEPT ![r] = FALSE]
  /\ UNCHANGED <<schema, messages, sqlite_seq, meta, ret, turn, wf>>

\* ------------------------------------------------------- inference engine
\* A JavaScript undefined where a text is expected.
Undefined == "<undefined>"

\* What env.AI.run resolves to: response is a text or undefined, messages an
\* array (isArray) or undefined.
AiResult(response, isArray, msgs) ==
  [response |-> response, isArray |-> isArray, messages |-> msgs]

\* Results of the chat model.
ChatResults ==
  { AiResult("k", FALSE, <<>>),
    AiResult("", FALSE, <<>>),
    AiResult(Undefined, FALSE, <<>>),
    AiResult(Undefined, TRUE, <<>>),
    AiResult(Undefined, TRUE, <<[role |-> "assistant", content |-> "k"]>>),
    AiResult(Undefined, TRUE, <<[role |-> "assistant", content |-> Undefined]>>) }

\* Results of the summarization model.
SummResults ==
  { AiResult("s1", FALSE, <<>>),
    AiResult("s2", FALSE, <<>>),
    AiResult("", FALSE, <<>>),
    AiResult(Undefined, FALSE, <<>>) }

\* JavaScript truthiness of a text or undefined.
Truthy(v) == v # Undefined /\ v # ""

\* result.messages.at(-1)?.content
LastContent(msgs) == IF Len(msgs) = 0 THEN Undefined ELSE msgs[Len(msgs)].content

\* result?.response || (Array.isArray(result?.messages) ? ...at(-1)?.content : "") || ""
normalize(result) ==
  LET alt == IF result.isArray THEN LastContent(result.messages) ELSE ""
  IN  IF Truthy(result.response) THEN result.response
      ELSE IF Truthy(alt) THEN alt
      ELSE ""

\* res?.response || "", then typeof summ === "string" ? summ : String(summ ?? "")
normalizeSumm(res) == IF Truthy(res.response) THEN res.response ELSE ""

\* ------------------------------------------------------------ program constants
\* getContext(18): the recency window of a turn.
CONTEXT_WINDOW == 18
\* getContext(40): the window summarized.
SUMMARY_WINDOW == 40
\* if (totalChars < 10_000) return
THRESHOLD == 10000

DefaultModel == "@cf/meta/llama-3.3-70b-instruct-fp8-fast"

\* body.model || default
modelOf(m) == IF m # "" THEN m ELSE DefaultModel

systemPreamble ==
  <<[role |-> "system",
     content |-> "You are a concise, friendly assistant. Keep answers helpful and safe."]>>

\* `Conversation memory: ${summary}`
memoryText(summary) ==
  CASE summary = "s1" -> "Conversation memory: s1"
    [] summary = "s2" -> "Conversation memory: s2"
    [] OTHER          -> "Conversation memory: "

\* A wrong memory: the entry is built whether or not there is a summary.
memory_Always(summary) == <<[role |-> "system", content |-> memoryText(summary)]>>

\* summary ? [{ role: "system", content: `Conversation memory: ${summary}` }] : []
memory(summary) ==
  IF summary # "" THEN <<[role |-> "system", content |-> memoryText(summary)]>>
  ELSE <<>>

\* /api/chat: [...systemPreamble, ...memory, ...messages]
chatConvo(ctx) == systemPreamble \o memory(ctx.summary) \o ctx.messages

\* A wrong prompt: the workflow builds the handler's, without the input.
workflowConvo_NoInput(summary, msgs, text) ==
  systemPreamble \o memory(summary) \o msgs

\* ChatWorkflow: [...systemPreamble, ...memory, ...messages, { role: "user", content: text }]
workflowConvo(summary, msgs, text) ==
  systemPreamble \o memory(summary) \o msgs \o <<[role |-> "user", content |-> text]>>

\* ------------------------------------------------------- /api/chat handler
NoResponse == [status |-> 0, text |-> ""]

IdleTurn ==
  [pc |-> "idle", path |-> "", room |-> "", text |-> "", model |-> "", summary |-> "",
   msgs |-> <<>>, convo |-> <<>>, assistantText |-> "", response |-> NoResponse]

NoWorkflow ==
  [status |-> "none", pc |-> "", room |-> "", text |-> "", model |-> "",
   summary |-> "", msgs |-> <<>>, convo |-> <<>>, assistantText |-> "",
   totalChars |-> 0, ctxForSumm |-> <<>>, summ |-> "", attempts |-> 0,
   restarts |-> 0, output |-> ""]

\* if (!body?.roomId || !body?.text): 400, nothing else happens.
Request(t, body) ==
  /\ turn[t].pc = "idle"
  /\ turn' = [turn EXCEPT ![t] =
       IF body.roomId = "" \/ body.text = ""
       THEN [@ EXCEPT !.pc = "bad_request", !.path = "/api/chat",
                      !.response = [status |-> 400, text |-> ""]]
       ELSE [@ EXCEPT !.pc = "append_user", !.path = "/api/chat",
                      !.room = body.roomId,
                      !.text = body.text, !.model = body.model]]
  /\ UNCHANGED <<storeVars, ret, wf>>

\* await session.append({ role: "user", content: body.text, ts })
TurnAppendUser(t) ==
  /\ turn[t].pc = "append_user"
  /\ append(turn[t].room, "user", turn[t].text)
  /\ turn' = [turn EXCEPT ![t].pc = "load_context"]
  /\ UNCHANGED <<ret, wf>>

\* const { summary, messages } = await session.getContext(18); convo = ...
TurnLoadContext(t) ==
  /\ turn[t].pc = "load_context"
  /\ readOnly(turn[t].room)
  /\ LET ctx == getContext(turn[t].room, CONTEXT_WINDOW)
     IN  turn' = [turn EXCEPT ![t].pc = "infer",
                              ![t].summary = ctx.summary,
                              ![t].msgs = ctx.messages,
                              ![t].convo = chatConvo(ctx)]
  /\ UNCHANGED <<ret, wf>>

\* const result = await env.AI.run(model, { messages: convo }); assistantText = ...
\* (summary, messages and convo are read by nothing after the call)
TurnInfer(t, result) ==
  /\ turn[t].pc = "infer"
  /\ turn' = [turn EXCEPT ![t].pc = "append_assistant",
                          ![t].summary = "", ![t].msgs = <<>>, ![t].convo = <<>>,
                          ![t].assistantText = normalize(result)]
  /\ UNCHANGED <<storeVars, ret, wf>>

\* A wrong append: the user's text is stored as the assistant's message.
TurnAppendAssistant_UserText(t) ==
  /\ turn[t].pc = "append_assistant"
  /\ append(turn[t].room, "assistant", turn[t].text)
  /\ turn' = [turn EXCEPT ![t].pc = "respond"]
  /\ UNCHANGED <<ret, wf>>

\* await session.append({ role: "assistant", content: assistantText, ts })
TurnAppendAssistant(t) ==
  /\ turn[t].pc = "append_assistant"
  /\ append(turn[t].room, "assistant", turn[t].assistantText)
  /\ turn' = [turn EXCEPT ![t].pc = "respond"]
  /\ UNCHANGED <<ret, wf>>

\* The invocation once the handler has returned or thrown: its position, what
\* the caller got, and the request it served; the handler's locals are gone.
returned(u, response) ==
  [IdleTurn EXCEPT !.pc = IF response.status = 200 THEN "done" ELSE "failed",
                   !.path = u.path,
                   !.room = u.room, !.text = u.text, !.model = u.model,
                   !.response = response]

\* A wrong handler: the workflow is awaited before the response is returned.
respondReady_AwaitsWorkflow(t) ==
  turn[t].pc = "respond" /\ wf[t].status = "complete"

\* What may hold the response back once the assistant message is stored.
respondReady(t) == turn[t].pc = "respond"

\* ctx.waitUntil((async () => { ... CHAT_WORKFLOW.create(...) ... })());
\* return new Response(JSON.stringify({ text: assistantText }))
TurnRespond(t) ==
  /\ respondReady(t)
  /\ turn' = [turn EXCEPT ![t] = returned(@, [status |-> 200,
                                                  text |-> turn[t].assistantText])]
  /\ wf' = [wf EXCEPT ![t] = [NoWorkflow EXCEPT
                                !.status = "creating",
                                !.room = turn[t].room,
                                !.text = turn[t].text,
                                !.model = modelOf(turn[t].model)]]
  /\ UNCHANGED <<storeVars, ret>>

\* A wrong handler: the rejection is swallowed and an empty answer returned.
turnFailure_Swallowed(t) == returned(turn[t], [status |-> 200, text |-> ""])

\* What a rejected await leaves of the turn: the handler has no try/catch, the
\* exception ends it and the caller gets an error response.
turnFailure(t) == returned(turn[t], [status |-> 500, text |-> ""])

\* One of the handler's awaits (a store call, the inference call) rejects.
TurnFail(t) ==
  /\ turn[t].pc \in {"append_user", "load_context", "infer", "append_assistant"}
  /\ turn' = [turn EXCEPT ![t] = turnFailure(t)]
  /\ UNCHANGED <<storeVars, ret, wf>>

\* ------------------------------------------------------ /api/voice handler
\* Transcriptions of the speech-to-text model: stt.text, or no text field.
SttTexts == {"hello", "", Undefined}

\* [{ role: "system", content: "You are a concise, friendly assistant." }]
voicePreamble ==
  <<[role |-> "system", content |-> "You are a concise, friendly assistant."]>>

\* /api/voice: [...systemPreamble, ...memory, ...messages]
voiceConvo(ctx) == voicePreamble \o memory(ctx.summary) \o ctx.messages

\* llmRes?.response || (Array.isArray(llmRes?.messages) ? ...at(-1)?.content : "")
\* (no final || "": the value may be undefined)
normalizeVoice(result) ==
  IF Truthy(result.response) THEN result.response
  ELSE IF result.isArray THEN LastContent(result.messages) ELSE ""

\* The content-type and file checks (400 each), then roomId and model with
\* their defaults; the next await is the speech-to-text call.
VoiceRequest(t, form) ==
  /\ turn[t].pc = "idle"
  /\ turn' = [turn EXCEPT ![t] =
       IF ~form.multipart \/ ~form.file
       THEN [@ EXCEPT !.pc = "bad_request", !.path = "/api/voice",
                      !.response = [status |-> 400, text |-> ""]]
       ELSE [@ EXCEPT !.pc = "stt", !.path = "/api/voice",
                      !.room = IF form.roomId # "" THEN form.roomId ELSE "default",
                      !.model = modelOf(form.model)]]
  /\ UNCHANGED <<storeVars, ret, wf>>

\* const stt = await env.AI.run(whisper, { audio }); userText = stt?.text ?? ""
VoiceStt(t, text) ==
  /\ turn[t].pc = "stt"
  /\ turn' = [turn EXCEPT ![t].pc = "voice_append_user",
                          ![t].text = IF text = Undefined THEN "" ELSE text]
  /\ UNCHANGED <<storeVars, ret, wf>>

\* await session.append({ role: "user", content: userText, ts })
VoiceAppendUser(t) ==
  /\ turn[t].pc = "voice_append_user"
  /\ append(turn[t].room, "user", turn[t].text)
  /\ turn' = [turn EXCEPT ![t].pc = "voice_load_context"]
  /\ UNCHANGED <<ret, wf>>

\* const { summary, messages } = await session.getContext(18); convo = ...
VoiceLoadContext(t) ==
  /\ turn[t].pc = "voice_load_context"
  /\ readOnly(turn[t].room)
  /\ LET ctx == getContext(turn[t].room, CONTEXT_WINDOW)
     IN  turn' = [turn EXCEPT ![t].pc = "voice_infer",
                              ![t].summary = ctx.summary,
                              ![t].msgs = ctx.messages,
                              ![t].convo = voiceConvo(ctx)]
  /\ UNCHANGED <<ret, wf>>

\* const llmRes = await env.AI.run(model, { messages: convo }); assistantText = ...
VoiceInfer(t, result) ==
  /\ turn[t].pc = "voice_infer"
  /\ turn' = [turn EXCEPT ![t].pc = "voice_append_assistant",
                          ![t].summary = "", ![t].msgs = <<>>, ![t].convo = <<>>,
                          ![t].assistantText = normalizeVoice(result)]
  /\ UNCHANGED <<storeVars, ret, wf>>

\* await session.append({ role: "assistant", content: assistantText, ts }).
\* An undefined content is no TEXT NOT NULL value: after ensureSchema the
\* INSERT throws, the await rejects and the handler ends in an error.
VoiceAppendAssistant(t) ==
  /\ turn[t].pc = "voice_append_assistant"
  /\ IF turn[t].assistantText = Undefined
     THEN /\ readOnly(turn[t].room)
          /\ turn' = [turn EXCEPT ![t] = returned(@, [status |-> 500, text |-> ""])]
     ELSE /\ append(turn[t].room, "assistant", turn[t].assistantText)
          /\ turn' = [turn EXCEPT ![t].pc = "tts"]
  /\ UNCHANGED <<ret, wf>>

\* const audioStream = await env.AI.run(aura, { text: assistantText, ... });
\* return new Response(audioStream, { headers }) with X-Answer-Text set to
\* encodeURIComponent(assistantText), which leaves the texts of the model as
\* they are.  No workflow is created on this path.
VoiceRespond(t) ==
  /\ turn[t].pc = "tts"
  /\ turn' = [turn EXCEPT ![t] = returned(@, [status |-> 200,
                                                  text |-> turn[t].assistantText])]
  /\ UNCHANGED <<storeVars, ret, wf>>

\* One of the handler's awaits (a model call, a store call) rejects.
VoiceFail(t) ==
  /\ turn[t].pc \in {"stt", "voice_append_user", "voice_load_context",
                     "voice_infer", "voice_append_assistant", "tts"}
  /\ turn' = [turn EXCEPT ![t] = returned(@, [status |-> 500, text |-> ""])]
  /\ UNCHANGED <<storeVars, ret, wf>>

\* ------------------------------------------------------------ ChatWorkflow
\* env.CHAT_WORKFLOW.create resolves: the instance exists and run() starts.
WfCreate(t) ==
  /\ wf[t].status = "creating"
  /\ wf' = [wf EXCEPT ![t].status = "running", ![t].pc = "append_user"]
  /\ UNCHANGED <<storeVars, ret, turn>>

\* A wrong handler: create is awaited before the return, so its rejection
\* replaces the response by an error.
WfCreateFail_Propagates(t) ==
  /\ wf[t].status = "creating"
  /\ wf' = [wf EXCEPT ![t].status = "create_failed"]
  /\ turn' = [turn EXCEPT ![t] = returned(@, [status |-> 500, text |-> ""])]
  /\ UNCHANGED <<storeVars, ret>>

\* env.CHAT_WORKFLOW.create rejects: no instance, the rejection stays inside
\* the promise handed to ctx.waitUntil.
WfCreateFail(t) ==
  /\ wf[t].status = "creating"
  /\ wf' = [wf EXCEPT ![t].status = "create_failed"]
  /\ UNCHANGED <<storeVars, ret, turn>>

\* A wrong step: the input is appended only if the conversation does not hold
\* it as a user message yet.
WfAppendUser_Dedup(t) ==
  /\ wf[t].status = "running" /\ wf[t].pc = "append_user"
  /\ IF \E x \in messages[wf[t].room] :
          x.role = "user" /\ x.content = wf[t].text
     THEN readOnly(wf[t].room)
     ELSE append(wf[t].room, "user", wf[t].text)
  /\ wf' = [wf EXCEPT ![t].pc = "load_context", ![t].attempts = 0]
  /\ UNCHANGED <<ret, turn>>

\* step.do("append user message")
WfAppendUser(t) ==
  /\ wf[t].status = "running" /\ wf[t].pc = "append_user"
  /\ append(wf[t].room, "user", wf[t].text)
  /\ wf' = [wf EXCEPT ![t].pc = "load_context", ![t].attempts = 0]
  /\ UNCHANGED <<ret, turn>>

\* step.do("load context"): session.getContext(18)
WfLoadContext(t) ==
  /\ wf[t].status = "running" /\ wf[t].pc = "load_context"
  /\ readOnly(wf[t].room)
  /\ LET ctx == getContext(wf[t].room, CONTEXT_WINDOW)
     IN  wf' = [wf EXCEPT ![t].pc = "llm", ![t].attempts = 0,
                          ![t].summary = ctx.summary,
                          ![t].msgs = ctx.messages]
  /\ UNCHANGED <<ret, turn>>

\* step.do("llm response"): convo is the prompt sent.  summary and messages
\* are read by no later step and are dropped here, convo with the next step.
WfLlm(t, result) ==
  /\ wf[t].status = "running" /\ wf[t].pc = "llm"
  /\ wf' = [wf EXCEPT ![t].pc = "append_assistant", ![t].attempts = 0,
                      ![t].summary = "", ![t].msgs = <<>>,
                      ![t].convo = workflowConvo(wf[t].summary, wf[t].msgs, wf[t].text),
                      ![t].assistantText = normalize(result)]
  /\ UNCHANGED <<storeVars, ret, turn>>

\* step.do("append assistant message")
WfAppendAssistant(t) ==
  /\ wf[t].status = "running" /\ wf[t].pc = "append_assistant"
  /\ append(wf[t].room, "assistant", wf[t].assistantText)
  /\ wf' = [wf EXCEPT ![t].pc = "sum_size", ![t].attempts = 0, ![t].convo = <<>>]
  /\ UNCHANGED <<ret, turn>>

\* A wrong comparison: exactly 10,000 characters do not trigger.
belowThreshold_Inclusive(totalChars) == totalChars <= THRESHOLD

\* if (totalChars < 10_000) return
belowThreshold(totalChars) == totalChars < THRESHOLD

\* The instance after run() returns { ok: true, text: assistantText }.
completed(w) ==
  [NoWorkflow EXCEPT !.status = "complete", !.pc = "end",
                     !.room = w.room, !.text = w.text, !.model = w.model,
                     !.output = w.assistantText]

\* step.do("maybe summarize"): const totalChars = await session.approxChars();
\* if (totalChars < 10_000) return;
WfSumSize(t) ==
  /\ wf[t].status = "running" /\ wf[t].pc = "sum_size"
  /\ readOnly(wf[t].room)
  /\ LET n == approxChars(wf[t].room)
     IN  wf' = [wf EXCEPT ![t] =
           IF belowThreshold(n)
           THEN completed([@ EXCEPT !.totalChars = n])
           ELSE [@ EXCEPT !.pc = "sum_context", !.totalChars = n]]
  /\ UNCHANGED <<ret, turn>>

\* const ctxForSumm = await session.getContext(40)
WfSumContext(t) ==
  /\ wf[t].status = "running" /\ wf[t].pc = "sum_context"
  /\ readOnly(wf[t].room)
  /\ wf' = [wf EXCEPT ![t].pc = "sum_ai",
                      ![t].ctxForSumm = getContext(wf[t].room, SUMMARY_WINDOW).messages]
  /\ UNCHANGED <<ret, turn>>

\* const res = await this.env.AI.run("@cf/meta/llama-3.1-8b-instruct", ...);
\* const summ = res?.response || ""
WfSumAi(t, res) ==
  /\ wf[t].status = "running" /\ wf[t].pc = "sum_ai"
  /\ wf' = [wf EXCEPT ![t].pc = "sum_set", ![t].ctxForSumm = <<>>,
                      ![t].summ = normalizeSumm(res)]
  /\ UNCHANGED <<storeVars, ret, turn>>

\* A wrong step: the summary is written only if the compression call gave a
\* text.
WfSumSet_SkipEmpty(t) ==
  /\ wf[t].status = "running" /\ wf[t].pc = "sum_set"
  /\ IF wf[t].summ = "" THEN readOnly(wf[t].room)
     ELSE setSummary(wf[t].room, wf[t].summ)
  /\ wf' = [wf EXCEPT ![t] = completed(@)]
  /\ UNCHANGED <<ret, turn>>

\* await session.setSummary(summ); the step and run() return.
WfSumSet(t) ==
  /\ wf[t].status = "running" /\ wf[t].pc = "sum_set"
  /\ setSummary(wf[t].room, wf[t].summ)
  /\ wf' = [wf EXCEPT ![t] = completed(@)]
  /\ UNCHANGED <<ret, turn>>

\* The first await of the step an attempt is in.
stepStart(pc) ==
  IF pc \in {"sum_size", "sum_context", "sum_ai", "sum_set"} THEN "sum_size" ELSE pc

\* A wrong sequencer: no step outcome is kept, a retry runs run() from its
\* first step again.
afterThrow_Restart(w) ==
  IF w.attempts < MaxRetries
  THEN [w EXCEPT !.pc = "append_user", !.attempts = w.attempts + 1,
                 !.totalChars = 0, !.ctxForSumm = <<>>, !.summ = ""]
  ELSE [NoWorkflow EXCEPT !.status = "errored", !.pc = w.pc,
                          !.room = w.room, !.text = w.text, !.model = w.model]

\* A wrong sequencer: attempts are not counted, a failing step is retried
\* without end.
afterThrow_Unbounded(w) ==
  [w EXCEPT !.pc = stepStart(w.pc),
            !.totalChars = 0, !.ctxForSumm = <<>>, !.summ = ""]

\* The instance after an attempt of its current step has thrown: the step is
\* tried again while its retry budget lasts; after that step.do rejects, run()
\* has no try/catch around any step, and the instance ends errored (pc keeps
\* the await that threw last).
afterThrow(w) ==
  IF w.attempts < MaxRetries
  THEN [w EXCEPT !.pc = stepStart(w.pc), !.attempts = w.attempts + 1,
                 !.totalChars = 0, !.ctxForSumm = <<>>, !.summ = ""]
  ELSE [NoWorkflow EXCEPT !.status = "errored", !.pc = w.pc,
                          !.room = w.room, !.text = w.text, !.model = w.model]

\* An await inside the current step's callback rejects (the store or the
\* inference engine fails) before it takes effect.
WfStepFail(t) ==
  /\ wf[t].status = "running"
  /\ wf' = [wf EXCEPT ![t] = afterThrow(@)]
  /\ UNCHANGED <<storeVars, ret, turn>>

\* A wrong sequencer: nothing is kept across a restart, run() starts over.
resumed_FromStart(w) ==
  [NoWorkflow EXCEPT !.status = "running", !.pc = "append_user",
                     !.room = w.room, !.text = w.text, !.model = w.model,
                     !.restarts = w.restarts + 1]

\* The instance after the host has restarted: run() is entered again, every
\* step.do whose outcome is recorded returns that outcome (summary, messages
\* and assistantText are such outcomes), and the first step without one runs
\* from its first await, the locals of its callback gone.
resumed(w) ==
  [w EXCEPT !.pc = stepStart(w.pc), !.restarts = w.restarts + 1,
            !.totalChars = 0, !.ctxForSumm = <<>>, !.summ = ""]

\* The host restarts while the instance runs.
HostRestart(t) ==
  /\ wf[t].status = "running" /\ wf[t].restarts < MaxRestarts
  /\ wf' = [wf EXCEPT ![t] = resumed(@)]
  /\ UNCHANGED <<storeVars, ret, turn>>

\* The host restarts after the store has carried out the write of the current
\* step's callback and before the step's outcome is recorded.
HostRestartAfterWrite(t) ==
  /\ wf[t].status = "running" /\ wf[t].restarts < MaxRestarts
  /\ wf[t].pc \in {"append_user", "append_assistant", "sum_set"}
  /\ CASE wf[t].pc = "append_user" -> append(wf[t].room, "user", wf[t].text)
       [] wf[t].pc = "append_assistant" ->
            append(wf[t].room, "assistant", wf[t].assistantText)
       [] OTHER -> setSummary(wf[t].room, wf[t].summ)
  /\ wf' = [wf EXCEPT ![t] = resumed(@)]
  /\ UNCHANGED <<ret, turn>>

\* ------------------------------------------------- the other invocations
\* Another invocation of the handler on conversation r gets to its
\* session.append({ role: "user", content: body.text, ts }), its text "hello".
OtherAppend(r) ==
  /\ Cardinality(messages[r]) <= MaxOthers
  /\ append(r, "user", "hello")
  /\ UNCHANGED <<ret, turn, wf>>

\* ------------------------------------------------------------ specification
Init ==
  /\ initialized = [r \in Rooms |-> FALSE]
  /\ schema = [r \in Rooms |-> FALSE]
  /\ messages = [r \in Rooms |-> {}]
  /\ sqlite_seq = [r \in Rooms |-> 0]
  /\ meta = [r \in Rooms |-> {}]
  /\ ret = NoRet
  /\ turn = [t \in Turns |-> IdleTurn]
  /\ wf = [t \in Turns |-> NoWorkflow]

StoreCalls ==
  \/ \E r \in CallRooms, role \in CallRoles, c \in CallTexts : CallAppend(r, role, c)
  \/ \E r \in CallRooms, limit \in 0..MaxLimit : CallGetContext(r, limit)
  \/ \E r \in CallRooms, s \in SummaryTexts : CallSetSummary(r, s)
  \/ \E r \in CallRooms : CallApproxChars(r)
  \/ \E r \in CallRooms : Evict(r)

TurnSteps ==
  \/ \E t \in Turns, body \in Bodies : Request(t, body)
  \/ \E t \in Turns : TurnAppendUser(t)
  \/ \E t \in Turns : TurnLoadContext(t)
  \/ \E t \in Turns, result \in ChatResults : TurnInfer(t, result)
  \/ \E t \in Turns : TurnAppendAssistant(t)
  \/ \E t \in Turns : TurnRespond(t)
  \/ \E t \in Turns : TurnFail(t)

WorkflowSteps ==
  \/ \E t \in Turns : WfCreate(t)
  \/ \E t \in Turns : WfCreateFail(t)
  \/ \E t \in Turns : WfAppendUser(t)
  \/ \E t \in Turns : WfLoadContext(t)
  \/ \E t \in Turns, result \in ChatResults : WfLlm(t, result)
  \/ \E t \in Turns : WfAppendAssistant(t)
  \/ \E t \in Turns : WfSumSize(t)
  \/ \E t \in Turns : WfSumContext(t)
  \/ \E t \in Turns, res \in SummResults : WfSumAi(t, res)
  \/ \E t \in Turns : WfSumSet(t)
  \/ \E t \in Turns : WfStepFail(t)

\* The Worker and its workflows.
Next == TurnSteps \/ WorkflowSteps

Spec == Init /\ [][Next]_vars

\* The sequencer runs an instance that can take a step: a pending create
\* settles, and every await of a running instance resolves or rejects.
WfProgress(t) ==
  \/ WfCreate(t)
  \/ WfCreateFail(t)
  \/ WfAppendUser(t)
  \/ WfLoadContext(t)
  \/ \E result \in ChatResults : WfLlm(t, result)
  \/ WfAppendAssistant(t)
  \/ WfSumSize(t)
  \/ WfSumContext(t)
  \/ \E res \in SummResults : WfSumAi(t, res)
  \/ WfSumSet(t)
  \/ WfStepFail(t)

\* Direct calls of the store's methods only.
StoreNext == StoreCalls

StoreSpec == Init /\ [][StoreNext]_vars

\* Invocation t1 is a /api/chat request, with its workflow; invocation t2 is a
\* /api/voice request.
ChatSteps(t) ==
  \/ \E body \in Bodies : Request(t, body)
  \/ TurnAppendUser(t)
  \/ TurnLoadContext(t)
  \/ \E result \in ChatResults : TurnInfer(t, result)
  \/ TurnAppendAssistant(t)
  \/ TurnRespond(t)
  \/ TurnFail(t)
  \/ WfCreate(t)
  \/ WfCreateFail(t)
  \/ WfAppendUser(t)
  \/ WfLoadContext(t)
  \/ \E result \in ChatResults : WfLlm(t, result)
  \/ WfAppendAssistant(t)
  \/ WfSumSize(t)
  \/ WfSumContext(t)
  \/ \E res \in SummResults : WfSumAi(t, res)
  \/ WfSumSet(t)
  \/ WfStepFail(t)

VoiceSteps(t) ==
  \/ \E form \in Forms : VoiceRequest(t, form)
  \/ \E text \in SttTexts : VoiceStt(t, text)
  \/ VoiceAppendUser(t)
  \/ VoiceLoadContext(t)
  \/ \E result \in ChatResults : VoiceInfer(t, result)
  \/ VoiceAppendAssistant(t)
  \/ VoiceRespond(t)
  \/ VoiceFail(t)

VoiceNext == ChatSteps("t1") \/ VoiceSteps("t2")

\* Conversation A after an earlier turn of 4999 characters ran to the end,
\* its workflow included: the four messages and the summary written.
PastMessages ==
  { [id |-> 1, role |-> "user", content |-> "essay"],
    [id |-> 2, role |-> "assistant", content |-> "k"],
    [id |-> 3, role |-> "user", content |-> "essay"],
    [id |-> 4, role |-> "assistant", content |-> "k"] }

PastMeta == {[k |-> "summary", v |-> "s1"]}

\* The two invocations start on fresh conversations, or with conversation A
\* as that earlier turn left it (the Durable Object evicted since).
VoiceInit ==
  /\ initialized = [r \in Rooms |-> FALSE]
  /\ \E past \in BOOLEAN :
       /\ schema = [r \in Rooms |-> past /\ r = "A"]
       /\ messages = [r \in Rooms |-> IF past /\ r = "A" THEN PastMessages ELSE {}]
       /\ sqlite_seq = [r \in Rooms |-> IF past /\ r = "A" THEN 4 ELSE 0]
       /\ meta = [r \in Rooms |-> IF past /\ r = "A" THEN PastMeta ELSE {}]
  /\ ret = NoRet
  /\ turn = [t \in Turns |-> IdleTurn]
  /\ wf = [t \in Turns |-> NoWorkflow]

VoiceSpec == VoiceInit /\ [][VoiceNext]_vars

\* The same two invocations, the workflow instance scheduled fairly.
LiveSpec == Init /\ [][VoiceNext]_vars /\ WF_vars(WfProgress("t1"))

\* The same two invocations on a host that restarts.
RestartNext ==
  \/ VoiceNext
  \/ HostRestart("t1")
  \/ HostRestartAfterWrite("t1")

RestartSpec == Init /\ [][RestartNext]_vars

\* The handler of invocation t1, from the request to the response, while
\* other invocations append to conversation A.
BusyNext ==
  \/ \E body \in Bodies : Request("t1", body)
  \/ TurnAppendUser("t1")
  \/ TurnLoadContext("t1")
  \/ \E result \in ChatResults : TurnInfer("t1", result)
  \/ TurnAppendAssistant("t1")
  \/ TurnRespond("t1")
  \/ TurnFail("t1")
  \/ OtherAppend("A")

BusySpec == Init /\ [][BusyNext]_vars

\* ------------------------------------------------------------------ claims
\* The log of a conversation: its rows, oldest first.
LogOf(r) == Reverse(OrderByIdDesc(messages[r]))

StrictlyIncreasing(s) == \A i \in 1..Len(s) - 1 : s[i].id < s[i + 1].id

\* The ids of the stored messages are 1..n, one row each.
C1_IdsAreARun ==
  \A r \in Rooms :
    /\ Ids(messages[r]) = 1..Cardinality(messages[r])
    /\ \A x, y \in messages[r] : x.id = y.id => x = y

\* Every row a step adds has an id above every id stored before the step.
C1_Increasing ==
  \A r \in Rooms : \A x \in messages'[r] \ messages[r] :
    \A y \in messages[r] : y.id < x.id

\* C1: for every interleaving of the appends of handler invocations and
\* workflow steps on one conversation, the sequence numbers of the stored
\* messages are pairwise distinct, gap-free (exactly 1..n) and strictly
\* increasing in commit order.
C1_SequenceNumbers == [](C1_IdsAreARun) /\ [][C1_Increasing]_vars

\* An invocation has appended its user message to conversation A while the
\* other invocation's workflow is between its two appends there.
C1_Witness ==
  /\ turn["t2"].pc = "infer" /\ turn["t2"].room = "A"
  /\ wf["t1"].status = "running" /\ wf["t1"].room = "A"
  /\ wf["t1"].pc = "append_assistant"
  /\ Cardinality(messages["A"]) = 4

\* C2: getContext(limit) returns at most limit messages, in strictly
\* increasing sequence-number order, for every limit a direct call is made with.
C2_BoundedAndOrdered ==
  ret.op = "getContext" =>
    /\ Len(ret.value.messages) <= ret.limit
    /\ StrictlyIncreasing(ret.value.messages)

\* A call returned two messages of a store that held more than two.
C2_Witness ==
  /\ ret.op = "getContext" /\ ret.limit = 2
  /\ Len(ret.value.messages) = 2
  /\ Cardinality(messages[ret.room]) = 3

\* The k rows with the highest ids.
HighestK(rows, k) == {x \in rows : Cardinality({y \in rows : y.id > x.id}) < k}

Range(s) == {s[i] : i \in 1..Len(s)}

\* With n messages stored, getContext(limit) is the min(limit, n) messages with
\* the highest sequence numbers, oldest first, and the stored summary.
C3_Window ==
  \A r \in Rooms, limit \in 0..MaxLimit :
    LET v == getContext(r, limit)
        k == Min(limit, Cardinality(messages[r]))
    IN  /\ Len(v.messages) = k
        /\ Range(v.messages) = HighestK(messages[r], k)
        /\ StrictlyIncreasing(v.messages)

\* While no summary was ever set, getContext(n) of a log of n messages is the
\* whole log, message i carrying id i, with the empty summary.
C3_RoundTrip ==
  \A r \in Rooms :
    meta[r] = {} =>
      LET n == Cardinality(messages[r])
          v == getContext(r, n)
      IN  /\ v.summary = ""
          /\ Len(v.messages) = n
          /\ \A i \in 1..n : v.messages[i].id = i

\* Right after a call append(role, content) has returned id, the newest
\* message getContext returns is that message under that id.
C3_AppendShows ==
  ret.op = "append" =>
    LET n == Cardinality(messages[ret.room])
        v == getContext(ret.room, 1)
    IN  /\ ret.id = n
        /\ v.messages =
             <<[id |-> ret.id, role |-> ret.role, content |-> ret.content]>>

\* C3: getContext(limit) reflects every completed append: with n messages
\* stored it returns exactly the min(limit, n) messages with the highest
\* sequence numbers; appending m1..mk to a fresh conversation and calling
\* getContext(k) returns m1..mk in that order with an empty summary.
C3_ReflectsAppends == C3_Window /\ C3_RoundTrip /\ C3_AppendShows

\* getContext(3) was called on a conversation of three appended messages and
\* no summary, and returned the three in the order appended.
C3_Witness ==
  /\ ret.op = "getContext" /\ ret.limit = 3 /\ ret.room = "A"
  /\ meta["A"] = {}
  /\ Cardinality(messages["A"]) = 3
  /\ ret.value = [summary |-> "", messages |-> LogOf("A")]
  /\ LogOf("A")[1].content = "hello" /\ LogOf("A")[2].content = "k"

\* At most one summary row per conversation.
C4_OneSummary ==
  \A r \in Rooms : Cardinality({row \in meta[r] : row.k = "summary"}) <= 1

\* The summary read is the text of the most recent setSummary, "" if none.
C4_LastWriterWins ==
  /\ ret.op = "setSummary" => summaryOf(ret.room) = ret.text
  /\ \A r \in Rooms : meta[r] = {} => summaryOf(r) = ""

\* Right after setSummary(t), a second setSummary(t) leaves what getContext and
\* approxChars read (the summary, the message rows) as it is.
C4_Idempotent ==
  ret.op = "setSummary" =>
    LET r == ret.room
        again == Upsert(ensureSchemaRows(r, meta[r]), "summary", ret.text)
    IN  /\ summaryIn(again) = summaryOf(r)
        /\ Cardinality({row \in again : row.k = "summary"}) = 1
        /\ ensureSchemaRows(r, messages[r]) = messages[r]

\* C4: setSummary is an idempotent last-writer-wins upsert: one summary value
\* per conversation, equal to the text of the most recent call ("" if none),
\* and setSummary(t) twice in a row reads as setSummary(t) once.
C4_SummaryUpsert == C4_OneSummary /\ C4_LastWriterWins /\ C4_Idempotent

\* The last direct call set the summary of a conversation that holds messages
\* to "s2", and "s2" is what the store holds.
C4_Witness ==
  /\ ret = [op |-> "setSummary", room |-> "A", text |-> "s2"]
  /\ meta["A"] = {[k |-> "summary", v |-> "s2"]}
  /\ Cardinality(messages["A"]) = 2

\* The rows of a table in id order, oldest first.
ById(rows) ==
  [i \in 1..Cardinality(rows) |->
     CHOOSE x \in rows : Cardinality({y \in rows : y.id < x.id}) = i - 1]

IsPrefix(s, t) == Len(s) <= Len(t) /\ SubSeq(t, 1, Len(s)) = s

\* C5: the message log is append-only: no step of a handler invocation or of
\* a workflow (its summarization included) deletes, reorders or changes a
\* stored message; the log before a step is a prefix of the log after it.
C5_AppendOnly ==
  [][\A r \in Rooms :
       messages'[r] # messages[r] =>
         /\ messages[r] \subseteq messages'[r]
         /\ IsPrefix(ById(messages[r]), ById(messages'[r]))]_vars

\* A workflow has summarized conversation A and written the summary; the four
\* messages of the turn are all there.
C5_Witness ==
  /\ wf["t1"].status = "complete" /\ wf["t1"].room = "A"
  /\ summaryOf("A") = "s1"
  /\ Cardinality(messages["A"]) = 4
  /\ turn["t2"].pc = "idle"

\* What each await of the "maybe summarize" step does.
C6_Steps ==
  \A t \in Turns :
    /\ wf'[t] # wf[t] /\ WfSumSize(t) =>
         LET n == approxChars(wf[t].room)
         IN  /\ n <= THRESHOLD - 1 =>
                  /\ wf'[t].status = "complete"
                  /\ meta' = meta /\ messages' = messages
             /\ n >= THRESHOLD =>
                  /\ wf'[t].status = "running" /\ wf'[t].pc = "sum_context"
                  /\ wf'[t].totalChars = n
    /\ wf'[t] # wf[t] /\ WfSumContext(t) => wf'[t].pc = "sum_ai" /\ meta' = meta
    /\ \A res \in SummResults :
         wf'[t] # wf[t] /\ WfSumAi(t, res) /\ Truthy(res.response) =>
           /\ wf'[t].pc = "sum_set" /\ wf'[t].summ = res.response
           /\ meta' = meta
    /\ wf'[t] # wf[t] /\ WfSumSet(t) /\ wf[t].summ # "" =>
         /\ wf[t].totalChars >= THRESHOLD
         /\ summaryOf(wf[t].room)' = wf[t].summ
         /\ wf'[t].status = "complete"

\* C6: run with approxChars() = 9,999 the "maybe summarize" step is a no-op
\* (the summary is unchanged and the workflow completes); run with 10,000 or
\* more, and a non-empty text from the summarization model, the workflow
\* completes with the summary overwritten by that text.
C6_TriggerBoundary == [][C6_Steps]_vars

\* A workflow found exactly 10,000 characters in conversation A, summarized
\* and completed; the summary is the model's text.
C6_Witness ==
  /\ wf["t1"].status = "complete" /\ wf["t1"].room = "A"
  /\ approxChars("A") = THRESHOLD
  /\ summaryOf("A") = "s2"
  /\ turn["t2"].pc = "idle"

\* A workflow found 9,999 characters in conversation A and completed without
\* a summary being written.
C6_WitnessBelow ==
  /\ wf["t1"].status = "complete" /\ wf["t1"].room = "A"
  /\ approxChars("A") = THRESHOLD - 1
  /\ meta["A"] = {}
  /\ turn["t2"].pc = "idle"

\* No other invocation was made for the conversation of invocation t.
Alone(t) == \A u \in Turns \ {t} : turn[u].room # turn[t].room

\* The handler returns: if only this invocation touched the conversation and
\* the model's text is non-empty, the store holds the user message and the
\* assistant message, and the text returned is the assistant message's.
C7_Return ==
  \A t \in Turns :
    TurnRespond(t) /\ Alone(t) /\ turn[t].assistantText # "" =>
      /\ messages'[turn[t].room] =
           { [id |-> 1, role |-> "user", content |-> turn[t].text],
             [id |-> 2, role |-> "assistant", content |-> turn'[t].response.text] }
      /\ turn'[t].response.status = 200
      /\ turn'[t].response.text # ""

\* C7: from an empty conversation, one synchronous turn whose inference
\* yields text leaves exactly 2 messages in the store when it returns, the
\* user message with the given text followed by the assistant message, and
\* returns the assistant message's content.
C7_ScenarioA == [][C7_Return]_vars

\* The handler has returned "k" for "hello" in conversation B, which holds
\* the two messages; the workflow has not been created yet.
C7_Witness ==
  /\ turn["t1"].pc = "done" /\ turn["t1"].room = "B" /\ turn["t1"].text = "hello"
  /\ turn["t1"].response = [status |-> 200, text |-> "k"]
  /\ turn["t2"].pc = "idle"
  /\ wf["t1"].status = "creating"
  /\ messages["B"] = { [id |-> 1, role |-> "user", content |-> "hello"],
                       [id |-> 2, role |-> "assistant", content |-> "k"] }

\* The inference call of an invocation rejects: the caller gets an error and
\* no text, the store is as it was, the user message is in it, no workflow.
C8_InferenceFails ==
  \A t \in Turns :
    TurnFail(t) /\ turn[t].pc = "infer" =>
      /\ turn'[t].pc = "failed"
      /\ turn'[t].response.status = 500 /\ turn'[t].response.text = ""
      /\ messages' = messages
      /\ \E row \in messages'[turn[t].room] :
           row.role = "user" /\ row.content = turn[t].text
      /\ wf'[t].status = "none"

\* A failed invocation does nothing more.
C8_Terminal ==
  \A t \in Turns : turn[t].pc = "failed" => turn'[t] = turn[t] /\ wf'[t] = wf[t]

\* C8: if the inference engine fails during a synchronous turn, the turn ends
\* in an error reported to the caller, with no assistant message appended and
\* no assistant text returned, and the user message stays in the store.
C8_ScenarioC == [][C8_InferenceFails /\ C8_Terminal]_vars

\* An invocation for conversation A failed; the store holds its user message
\* and nothing else.
C8_Witness ==
  /\ turn["t1"].pc = "failed" /\ turn["t1"].room = "A"
  /\ turn["t1"].response.status = 500
  /\ turn["t2"].pc = "idle"
  /\ messages["A"] = {[id |-> 1, role |-> "user", content |-> "essay"]}

\* The positions of the handler follow the source's order, each with its effect.
C9_Order ==
  \A t \in Turns :
    turn'[t].pc # turn[t].pc =>
      LET p == turn[t].pc
          q == turn'[t].pc
          r == turn'[t].room
          added == messages'[r] \ messages[r]
      IN  \/ p = "idle" /\ q \in {"append_user", "bad_request"}
          \/ /\ p = "append_user" /\ q = "load_context"
             /\ \E x \in added : added = {x} /\ x.role = "user"
                                 /\ x.content = turn[t].text
          \/ p = "load_context" /\ q = "infer" /\ messages' = messages
          \/ p = "infer" /\ q = "append_assistant" /\ messages' = messages
          \/ /\ p = "append_assistant" /\ q = "respond"
             /\ \E x \in added : added = {x} /\ x.role = "assistant"
                                 /\ x.content = turn[t].assistantText
          \/ /\ p = "respond" /\ q = "done"
             /\ messages' = messages
             /\ turn'[t].response = [status |-> 200, text |-> turn[t].assistantText]
             /\ wf[t].status = "none" /\ wf'[t].status = "creating"
          \/ /\ p \in {"append_user", "load_context", "infer", "append_assistant"}
             /\ q = "failed"

\* The response waits for nothing once the assistant message is stored, and a
\* workflow exists only for an invocation that has returned its response.
C9_NoWait ==
  \A t \in Turns :
    /\ turn[t].pc = "respond" => ENABLED TurnRespond(t)
    /\ wf[t].status # "none" => turn[t].pc = "done"
    /\ turn[t].pc = "done" =>
         \E u, a \in messages[turn[t].room] :
           /\ u.role = "user" /\ u.content = turn[t].text
           /\ a.role = "assistant" /\ a.content = turn[t].response.text
           /\ u.id < a.id

\* C9: in the synchronous turn the user append, the context load, the
\* inference call and the assistant append complete, in that order, before
\* the response is returned; the response does not wait for the workflow,
\* which is submitted only after the assistant append.
C9_TurnOrder == [](C9_NoWait) /\ [][C9_Order]_vars

\* The response has been returned and the workflow's first step has not run.
C9_Witness ==
  /\ turn["t1"].pc = "done" /\ turn["t1"].response.status = 200
  /\ wf["t1"].status = "running" /\ wf["t1"].pc = "append_user"
  /\ Cardinality(messages[turn["t1"].room]) = 2

\* C10: a failure of the summarization (the compression call or the
\* setSummary write failing inside "maybe summarize") is non-fatal: the
\* workflow instance does not end errored because of it.
C10_SummarizationNonFatal ==
  \A t \in Turns :
    ~(wf[t].status = "errored" /\ wf[t].pc \in {"sum_ai", "sum_set"})

\* The outcomes of a workflow that are failures.
C11_Failed(w) == w.status \in {"create_failed", "errored"}

\* A response once returned is the caller's: no later step changes it, and a
\* step in which a workflow fails, or retries a step, changes no invocation.
C11_Steps ==
  \A t \in Turns :
    /\ turn[t].pc = "done" => turn'[t] = turn[t]
    /\ wf'[t] # wf[t] /\ wf[t].status # "none" => turn' = turn

\* Whatever became of the workflow, the caller has the answer of the turn: 200
\* and the text stored as the assistant message.
C11_Response ==
  \A t \in Turns :
    wf[t].status # "none" =>
      /\ turn[t].pc = "done" /\ turn[t].response.status = 200
      /\ \E a \in messages[turn[t].room] :
           a.role = "assistant" /\ a.content = turn[t].response.text

\* C11: failures of the workflow (create rejecting, a step failing, the
\* instance ending errored) never reach the caller: the response of the
\* handler (status and assistant text) is the same for every outcome of the
\* workflow; the failure shows in the workflow's status only.
C11_NoPropagation == [](C11_Response) /\ [][C11_Steps]_vars

\* One workflow could not be created and the other ended errored; both
\* callers hold their 200 response with the model's text.
C11_Witness ==
  /\ wf["t1"].status = "create_failed" /\ wf["t2"].status = "errored"
  /\ turn["t1"].response = [status |-> 200, text |-> "k"]
  /\ turn["t2"].response = [status |-> 200, text |-> "k"]

\* The number of entries of a prompt with the system role.
C12_SystemEntries(convo) ==
  Cardinality({i \in 1..Len(convo) : convo[i].role = "system"})

\* A prompt in order: the directive, then the one summary entry if and only
\* if the summary is non-empty, then the messages retrieved, oldest first.
C12_Ordered(convo, directive, summary, msgs) ==
  LET k == IF summary # "" THEN 1 ELSE 0
  IN  /\ Len(convo) >= 1 + k + Len(msgs)
      /\ convo[1] = directive
      /\ summary # "" =>
           convo[2] = [role |-> "system", content |-> memoryText(summary)]
      /\ SubSeq(convo, 2 + k, 1 + k + Len(msgs)) = msgs
      /\ C12_SystemEntries(convo) = 1 + k
      /\ StrictlyIncreasing(msgs)

\* What a getContext(18) retrieves from conversation r.
C12_Retrieved(r, summary, msgs) ==
  /\ summary = summaryOf(r)
  /\ msgs = ById(HighestK(messages[r], CONTEXT_WINDOW))

\* The directive of the handler of a path.
C12_Directive(path) ==
  IF path = "/api/voice" THEN voicePreamble[1] ELSE systemPreamble[1]

\* The prompt each path builds, at the step that builds it.
C12_Steps ==
  \A t \in Turns :
    /\ turn'[t].pc \in {"infer", "voice_infer"} /\ turn[t].pc # turn'[t].pc =>
         /\ C12_Retrieved(turn[t].room, turn'[t].summary, turn'[t].msgs)
         /\ C12_Ordered(turn'[t].convo, C12_Directive(turn[t].path),
                        turn'[t].summary, turn'[t].msgs)
    /\ wf[t].pc = "load_context" /\ wf'[t].pc = "llm" =>
         C12_Retrieved(wf[t].room, wf'[t].summary, wf'[t].msgs)
    /\ wf[t].pc = "llm" /\ wf'[t].pc = "append_assistant" =>
         C12_Ordered(wf'[t].convo, systemPreamble[1], wf[t].summary, wf[t].msgs)

\* C12: every prompt sent to the chat model (by the /api/chat handler, the
\* /api/voice handler and the workflow's "llm response" step) is ordered: the
\* fixed system directive first, then exactly one system-role summary entry
\* if and only if the summary read is non-empty, then the messages retrieved,
\* oldest first; the summary entry precedes all message history.
C12_PromptOrder == [][C12_Steps]_vars

\* The voice handler holds a prompt with the summary entry and six messages,
\* after the workflow of the chat invocation sent its own with the summary.
C12_Witness ==
  /\ turn["t2"].pc = "voice_infer" /\ turn["t2"].summary = "s1"
  /\ Len(turn["t2"].convo) = 8
  /\ wf["t1"].pc = "append_assistant" /\ Len(wf["t1"].convo) >= 8
  /\ wf["t1"].convo[2].content = memoryText("s1")

\* The prompt entry made of the user's input.
C13_Input(text) == [role |-> "user", content |-> text]

\* The entries of a prompt up to the end of the retrieved messages.
C13_Head(summary, msgs) == 1 + (IF summary # "" THEN 1 ELSE 0) + Len(msgs)

\* The input follows the retrieved messages as the last entry.
C13_InputLast(convo, summary, msgs, text) ==
  /\ Len(convo) = C13_Head(summary, msgs) + 1
  /\ convo[Len(convo)] = C13_Input(text)

\* The prompt ends with the retrieved messages.
C13_NoInput(convo, summary, msgs) == Len(convo) = C13_Head(summary, msgs)

\* A handler has built its prompt in this step.
C13_HandlerBuilds(t) ==
  turn'[t].pc \in {"infer", "voice_infer"} /\ turn[t].pc # turn'[t].pc

\* The workflow has built its prompt in this step.
C13_WorkflowBuilds(t) == wf[t].pc = "llm" /\ wf'[t].pc = "append_assistant"

\* C13 as it is stated: the new user input is appended as the last prompt
\* entry, after the retrieved recent messages, only in the handler's variant
\* of the prompt; the workflow's variant omits it.
C13_InputOnlyInHandler ==
  [][\A t \in Turns :
       /\ C13_HandlerBuilds(t) =>
            C13_InputLast(turn'[t].convo, turn'[t].summary, turn'[t].msgs,
                          turn[t].text)
       /\ C13_WorkflowBuilds(t) =>
            C13_NoInput(wf'[t].convo, wf[t].summary, wf[t].msgs)]_vars

\* C13 amended: the new user input is appended as the last prompt entry,
\* after the retrieved recent messages, only in the workflow's variant of
\* the prompt; the handlers' variants (/api/chat and /api/voice) omit it,
\* their prompt ends with the retrieved messages.
C13_InputOnlyInWorkflow ==
  [][\A t \in Turns :
       /\ C13_HandlerBuilds(t) =>
            C13_NoInput(turn'[t].convo, turn'[t].summary, turn'[t].msgs)
       /\ C13_WorkflowBuilds(t) =>
            C13_InputLast(wf'[t].convo, wf[t].summary, wf[t].msgs, wf[t].text)]_vars

\* The workflow of the chat invocation sent a prompt that ends with the input
\* twice, as the newest retrieved message and as the entry appended; the
\* voice handler holds a prompt that ends with the newest retrieved message.
C13_Witness ==
  /\ wf["t1"].pc = "append_assistant" /\ Len(wf["t1"].convo) = 5
  /\ wf["t1"].convo[4] = [id |-> 3, role |-> "user", content |-> "hello"]
  /\ wf["t1"].convo[5] = C13_Input("hello")
  /\ turn["t2"].pc = "voice_infer" /\ Len(turn["t2"].convo) = 2
  /\ turn["t2"].convo[2] = [id |-> 1, role |-> "user", content |-> "hello"]

\* C14: the workflow is triggered after every turn: each invocation that
\* completes its synchronous path (through /api/chat or /api/voice) has
\* exactly one workflow instance submitted for it, carrying the turn's roomId,
\* text and model, and an invocation that fails has none.
C14_TriggeredAfterEveryTurn ==
  \A t \in Turns :
    /\ turn[t].pc = "done" =>
         /\ wf[t].status # "none"
         /\ wf[t].room = turn[t].room
         /\ wf[t].text = turn[t].text
         /\ wf[t].model = modelOf(turn[t].model)
    /\ turn[t].pc \in {"failed", "bad_request"} => wf[t].status = "none"

\* The conversation a step of invocation t, or of its workflow, is addressed to.
C15_Addressed(t) == IF turn'[t].room # "" THEN turn'[t].room ELSE wf'[t].room

\* Invocation t or its workflow takes this step.
C15_StepOf(t) == turn'[t] # turn[t] \/ wf'[t] # wf[t]

\* C15: conversations are independent: a step of a handler invocation or of a
\* workflow addressed to one conversation leaves the stored messages (hence
\* approxChars, which reads nothing else), the summary and the id counter of
\* every other conversation unchanged, in every interleaving.
C15_RoomsIndependent ==
  [][\A t \in Turns :
       C15_StepOf(t) =>
         \A r \in Rooms \ {C15_Addressed(t)} :
           /\ messages'[r] = messages[r]
           /\ meta'[r] = meta[r]
           /\ summaryOf(r)' = summaryOf(r)
           /\ sqlite_seq'[r] = sqlite_seq[r]]_vars

\* The workflow of a turn in conversation A has written a summary there while
\* an invocation for conversation B waits for the model with its own message
\* stored.
C15_Witness ==
  /\ wf["t1"].status = "complete" /\ wf["t1"].room = "A"
  /\ summaryOf("A") = "s1" /\ Cardinality(messages["A"]) = 4
  /\ turn["t2"].pc = "infer" /\ turn["t2"].room = "B"
  /\ messages["B"] = {[id |-> 1, role |-> "user", content |-> "hello"]}
  /\ meta["B"] = {}

\* The step.do call a position of run() lies in: 1 "append user message",
\* 2 "load context", 3 "llm response", 4 "append assistant message",
\* 5 "maybe summarize".
C16_StepNo(pc) ==
  CASE pc = "append_user"      -> 1
    [] pc = "load_context"     -> 2
    [] pc = "llm"              -> 3
    [] pc = "append_assistant" -> 4
    [] OTHER                   -> 5

\* The rows a step adds to the conversation of workflow t.
C16_Added(t) == messages'[wf[t].room] \ messages[wf[t].room]

\* What completing step n of workflow t does to the store and the instance.
C16_Effect(t, n) ==
  CASE n = 1 -> \E x \in C16_Added(t) :
                  /\ C16_Added(t) = {x}
                  /\ x.role = "user" /\ x.content = wf[t].text
    [] n = 2 -> messages' = messages /\ meta' = meta
    [] n = 3 -> messages' = messages /\ meta' = meta
    [] n = 4 -> \E x \in C16_Added(t) :
                  /\ C16_Added(t) = {x}
                  /\ x.role = "assistant" /\ x.content = wf[t].assistantText
    [] OTHER -> messages' = messages

\* The moves of one instance.
C16_Steps ==
  \A t \in Turns :
    wf'[t] # wf[t] =>
      LET w == wf[t]
          v == wf'[t]
          n == C16_StepNo(w.pc)
      IN  \/ w.status = "none" /\ v.status = "creating"
          \/ w.status = "creating" /\ v.status = "create_failed"
          \/ w.status = "creating" /\ v.status = "running" /\ v.pc = "append_user"
                /\ v.attempts = 0 /\ messages' = messages
          \* a step completes and the next begins
          \/ /\ w.status = "running" /\ v.status = "running"
             /\ n < 5 /\ C16_StepNo(v.pc) = n + 1 /\ v.pc = stepStart(v.pc)
             /\ v.attempts = 0
             /\ C16_Effect(t, n)
          \* inside the last step
          \/ /\ w.status = "running" /\ v.status = "running"
             /\ n = 5 /\ C16_StepNo(v.pc) = 5 /\ v.attempts = w.attempts
             /\ <<w.pc, v.pc>> \in {<<"sum_size", "sum_context">>,
                                  <<"sum_context", "sum_ai">>,
                                  <<"sum_ai", "sum_set">>}
             /\ messages' = messages /\ meta' = meta
          \* the last step completes and run() returns
          \/ /\ w.status = "running" /\ v.status = "complete"
             /\ w.pc \in {"sum_size", "sum_set"}
             /\ v.output = w.assistantText
             /\ messages' = messages
          \* an attempt throws: the same step again
          \/ /\ w.status = "running" /\ v.status = "running"
             /\ w.attempts < MaxRetries /\ v.attempts = w.attempts + 1
             /\ v.pc = stepStart(w.pc)
             /\ messages' = messages /\ meta' = meta
          \* an attempt throws with the retry budget used up
          \/ /\ w.status = "running" /\ v.status = "errored"
             /\ w.attempts = MaxRetries
             /\ messages' = messages /\ meta' = meta

\* After run() has returned or thrown, and when the instance could not be
\* created, nothing of the instance moves.
C16_Terminal ==
  \A t \in Turns :
    wf[t].status \in {"complete", "errored", "create_failed"} => wf'[t] = wf[t]

\* A running instance is at a step, with its retry budget not exceeded.
C16_Running ==
  \A t \in Turns :
    wf[t].status = "running" =>
      /\ wf[t].pc \in {"append_user", "load_context", "llm", "append_assistant",
                        "sum_size", "sum_context", "sum_ai", "sum_set"}
      /\ wf[t].attempts \in 0..MaxRetries

\* C16: each workflow instance goes created -> "append user message" ->
\* "load context" -> "llm response" -> "append assistant message" -> "maybe
\* summarize" -> complete, or to errored from a step whose retry budget is
\* used up: a step begins only when the one before has completed, none is
\* skipped or run out of order, and after errored no step runs.
C16_StateMachine == [](C16_Running) /\ [][C16_Steps /\ C16_Terminal]_vars

\* One instance ended errored in its third step; the other went through all
\* five and completed.
C16_Witness ==
  /\ wf["t1"].status = "errored" /\ wf["t1"].pc = "llm"
  /\ wf["t2"].status = "complete" /\ wf["t2"].output = "k"
  /\ Cardinality(messages[wf["t1"].room]) >= 3

\* The restart of this step resumes instance t at its first step without a
\* recorded outcome, the recorded outcomes kept.
C17_Resumes(t) ==
  wf'[t].restarts = wf[t].restarts + 1 =>
    /\ wf'[t].status = "running"
    /\ wf'[t].pc = stepStart(wf[t].pc)
    /\ wf'[t].summary = wf[t].summary /\ wf'[t].msgs = wf[t].msgs
    /\ wf'[t].assistantText = wf[t].assistantText
    /\ wf'[t].attempts = wf[t].attempts

\* A step of instance t with the outcome of "append user message" (of "append
\* assistant message") recorded adds no user (no assistant) message.
C17_NoRepeat(t) ==
  wf'[t] # wf[t] /\ wf[t].status = "running" =>
    /\ C16_StepNo(wf[t].pc) > 1 => \A x \in C16_Added(t) : x.role # "user"
    /\ C16_StepNo(wf[t].pc) > 4 => C16_Added(t) = {}

\* "llm response" sends the context "load context" recorded, which stays as
\* recorded while the step waits, is retried or is resumed.
C17_ReusesContext(t) ==
  /\ wf[t].pc = "llm" /\ wf'[t].pc = "llm" /\ wf'[t].status = "running" =>
       wf'[t].summary = wf[t].summary /\ wf'[t].msgs = wf[t].msgs
  /\ C13_WorkflowBuilds(t) =>
       wf'[t].convo = systemPreamble \o memory(wf[t].summary) \o wf[t].msgs
                        \o <<C13_Input(wf[t].text)>>

\* C17: a restart of the host at any point of a workflow instance resumes at
\* the first step whose outcome is not recorded and never runs again a step
\* whose outcome is: with "append user message" (resp. "append assistant
\* message") recorded the instance appends no further user (resp. assistant)
\* message, and "llm response" uses the context "load context" recorded
\* instead of loading it again.
C17_ResumeAtFirstIncomplete ==
  [][\A t \in Turns : C17_Resumes(t) /\ C17_NoRepeat(t) /\ C17_ReusesContext(t)]_vars

\* The one user message of the instance, or its only message of either role.
C17_Rows(r, role, content) ==
  {x \in messages[r] : x.role = role /\ x.content = content}

\* The host restarted while the instance waited for the model; the voice
\* handler has appended to the conversation since the context was recorded;
\* the prompt sent was that recorded context and the conversation holds the
\* input twice, once from the handler and once from the instance.
C17_Witness ==
  /\ wf["t1"].status = "running" /\ wf["t1"].room = "A"
  /\ wf["t1"].restarts = 1 /\ wf["t1"].pc = "append_assistant"
  /\ Len(wf["t1"].convo) = 5
  /\ Cardinality(messages["A"]) = 4
  /\ turn["t2"].pc = "voice_load_context"
  /\ Cardinality(C17_Rows("A", "user", "essay")) = 2

\* run() returns only from its fifth step, with the four steps before it done:
\* the instance's user message and, after it, its assistant message stored.
C18_CompleteAfterFive ==
  \A t \in Turns :
    wf'[t].status = "complete" /\ wf[t].status # "complete" =>
      /\ wf[t].status = "running" /\ C16_StepNo(wf[t].pc) = 5
      /\ \E u, a \in messages[wf[t].room] :
           /\ u.role = "user" /\ u.content = wf[t].text
           /\ a.role = "assistant" /\ a.content = wf[t].assistantText
           /\ u.id < a.id

\* C18: with fair scheduling and a finite retry budget for each step, every
\* created workflow instance eventually reaches a terminal status, complete
\* or errored, and does not stay running forever; complete is reached only
\* after all five steps have succeeded.
C18_Terminates ==
  /\ \A t \in Turns :
       (wf[t].status = "running") ~> (wf[t].status \in {"complete", "errored"})
  /\ [][C18_CompleteAfterFive]_vars

\* The instance has completed after summarizing, its four steps before that
\* done, while the voice handler is still at work.
C18_Witness ==
  /\ wf["t1"].status = "complete" /\ summaryOf(wf["t1"].room) = "s2"
  /\ wf["t1"].output = "k"
  /\ turn["t2"].pc = "tts"

\* The handler of invocation t has returned and its workflow has completed.
C19_BothCompleted(t) == turn[t].pc = "done" /\ wf[t].status = "complete"

\* The invocations made for conversation r, whatever became of them.
C19_TurnsOf(r) == {t \in Turns : turn[t].room = r}

\* The four messages of the turn of invocation t are in its conversation in
\* this order: the handler's user and assistant messages, then the workflow's.
C19_FourInOrder(t) ==
  \E u1, a1, u2, a2 \in messages[turn[t].room] :
    /\ u1.id < a1.id /\ a1.id < u2.id /\ u2.id < a2.id
    /\ u1.role = "user" /\ u1.content = turn[t].text
    /\ a1.role = "assistant" /\ a1.content = turn[t].response.text
    /\ u2.role = "user" /\ u2.content = turn[t].text
    /\ a2.role = "assistant" /\ a2.content = wf[t].output

\* C19: once the handler of a turn has returned and the turn's workflow has
\* completed, the user's input is stored twice, by the handler and by the
\* workflow's "append user message", the workflow's copy above the handler's
\* assistant message; the turn has added four messages (user, assistant,
\* user, assistant): exactly these four when the turn is the only one of its
\* conversation, and four for each turn when all turns of the conversation
\* have completed.
C19_DoubleAppend ==
  \A t \in Turns :
    C19_BothCompleted(t) =>
      LET r == turn[t].room
      IN  /\ C19_FourInOrder(t)
          /\ Alone(t) =>
               messages[r] =
                 { [id |-> 1, role |-> "user", content |-> turn[t].text],
                   [id |-> 2, role |-> "assistant", content |-> turn[t].response.text],
                   [id |-> 3, role |-> "user", content |-> turn[t].text],
                   [id |-> 4, role |-> "assistant", content |-> wf[t].output] }
          /\ (\A u \in C19_TurnsOf(r) : C19_BothCompleted(u)) =>
               /\ Cardinality(messages[r]) = 4 * Cardinality(C19_TurnsOf(r))
               /\ Cardinality({x \in messages[r] : x.role = "user"}) =
                    2 * Cardinality(C19_TurnsOf(r))

\* The turn "hello" of conversation B is over, handler and workflow: the
\* conversation holds the input twice, at ids 1 and 3.
C19_Witness ==
  /\ turn["t1"].pc = "done" /\ wf["t1"].status = "complete"
  /\ turn["t2"].pc = "idle"
  /\ messages["B"] = { [id |-> 1, role |-> "user", content |-> "hello"],
                       [id |-> 2, role |-> "assistant", content |-> "k"],
                       [id |-> 3, role |-> "user", content |-> "hello"],
                       [id |-> 4, role |-> "assistant", content |-> ""] }

\* approxChars reads the message rows only; whenever they change it does not
\* get smaller.
C20_NeverDecreases ==
  \A r \in Rooms :
    messages'[r] # messages[r] => approxChars(r)' >= approxChars(r)

\* An instance inside the summarization has found the threshold reached, and
\* it still is.
C20_StaysOn ==
  \A t \in Turns :
    wf[t].status = "running" /\ wf[t].pc \in {"sum_context", "sum_ai", "sum_set"} =>
      /\ wf[t].totalChars >= THRESHOLD
      /\ approxChars(wf[t].room) >= wf[t].totalChars

\* With the threshold reached, "maybe summarize" does not return at its size
\* check, and the instance completes only by writing the text of its
\* compression call as the summary.
C20_Summarizes ==
  \A t \in Turns :
    wf[t].status = "running" /\ approxChars(wf[t].room) >= THRESHOLD =>
      /\ wf[t].pc = "sum_size" /\ wf'[t].attempts = wf[t].attempts
           /\ wf'[t] # wf[t] =>
             wf'[t].status = "running" /\ wf'[t].pc = "sum_context"
      /\ wf'[t].status = "complete" =>
           /\ wf[t].pc = "sum_set"
           /\ \E res \in SummResults : wf[t].summ = normalizeSumm(res)
           /\ meta'[wf[t].room] = Upsert(meta[wf[t].room], "summary", wf[t].summ)
           /\ summaryOf(wf[t].room)' = wf[t].summ

C21_Unusable(res) == ~Truthy(res.response)

\* The compression call resolving to such a result raises nothing: the step
\* goes on to setSummary with the empty string, and setSummary stores it over
\* whatever summary there was.
C21_Replaces ==
  \A t \in Turns :
    /\ \A res \in SummResults :
         wf'[t] # wf[t] /\ C21_Unusable(res) /\ WfSumAi(t, res) =>
           /\ wf'[t].status = "running" /\ wf'[t].pc = "sum_set"
           /\ wf'[t].attempts = wf[t].attempts
           /\ wf'[t].summ = ""
    /\ wf[t].status = "running" /\ wf[t].pc = "sum_set" /\ wf[t].summ = ""
         /\ wf'[t].status = "complete" =>
           /\ [k |-> "summary", v |-> ""] \in meta'[wf[t].room]
           /\ summaryOf(wf[t].room)' = ""
           /\ messages'[wf[t].room] = messages[wf[t].room]

\* A prompt built from a conversation whose stored summary is empty has the
\* directive as its only system entry.
C21_NoSummaryEntry ==
  \A t \in Turns :
    /\ turn'[t].pc \in {"infer", "voice_infer"} /\ turn[t].pc # turn'[t].pc
         /\ summaryOf(turn[t].room) = "" =>
           /\ turn'[t].summary = ""
           /\ C12_SystemEntries(turn'[t].convo) = 1
    /\ wf[t].pc = "load_context" /\ wf'[t].pc = "llm"
         /\ summaryOf(wf[t].room) = "" => wf'[t].summary = ""
    /\ wf[t].pc = "llm" /\ wf'[t].pc = "append_assistant" /\ wf[t].summary = "" =>
           C12_SystemEntries(wf'[t].convo) = 1

\* C21: when summarization is triggered and the compression call returns no
\* usable text (response missing or empty) without raising an error, "maybe
\* summarize" still calls setSummary with the empty string: a stored
\* non-empty summary is replaced by the empty one, and the prompts built
\* after that carry no summary entry.
C21_EmptySummaryReplaces == [][C21_Replaces /\ C21_NoSummaryEntry]_vars

\* Conversation A had the summary "s1"; the workflow of the turn has replaced
\* it by the empty string, and the voice handler has since built a prompt
\* from the conversation, without a summary entry.
C21_Witness ==
  /\ PastMessages \subseteq messages["A"]
  /\ wf["t1"].status = "complete" /\ wf["t1"].room = "A"
  /\ meta["A"] = {[k |-> "summary", v |-> ""]}
  /\ turn["t2"].pc = "voice_infer" /\ turn["t2"].room = "A"
  /\ turn["t2"].summary = "" /\ Len(turn["t2"].msgs) >= 9
  /\ C12_SystemEntries(turn["t2"].convo) = 1

\* The prompt of a /api/chat invocation holds the invocation's input as a
\* user message.
C22_OwnMessage(t) ==
  \E i \in 1..Len(turn[t].convo) :
    turn[t].convo[i].role = "user" /\ turn[t].convo[i].content = turn[t].text

\* C22: for every interleaving of concurrent synchronous turns and pipeline
\* steps on the same conversation, the prompt a synchronous turn sends to the
\* inference engine contains that turn's own user message among the recent
\* messages retrieved: the append of step 1 is visible in the window loaded
\* in step 2.
C22_OwnMessageInWindow ==
  \A t \in Turns :
    turn[t].pc = "infer" /\ turn[t].path = "/api/chat" =>
      /\ C22_OwnMessage(t)
      /\ \E i \in 1..Len(turn[t].msgs) :
           turn[t].msgs[i].role = "user" /\ turn[t].msgs[i].content = turn[t].text

====
